---------------------------- MODULE Spec2Model ----------------------------
(***************************************************************************)
(* Model of the Dockerfile generator in its two variants:                  *)
(*   "orig"  create-dockerfile.py       (str.replace chain)                *)
(*   "copy"  create-dockerfile copy.py  (re.sub based)                     *)
(*                                                                         *)
(* Text is modelled as the list of its lines (the text split at "\n"), a   *)
(* line as the list of its tokens.  A token is a piece of text that the    *)
(* patterns of the two scripts treat as a unit: "#", " ", a literal such   *)
(* as "FROM ubuntu:22.04", an assignment key such as "ARG GO_VERSION=",    *)
(* a value.  None of the patterns holds a line break, so str.replace and   *)
(* the single-line re.sub calls act line by line; the two DOTALL patterns  *)
(* act on runs of lines.                                                   *)
(***************************************************************************)
EXTENDS Integers, Sequences, FiniteSets, TLC

VARIABLES variant, args, templateExists, template, pc, content,
          output, exitCode, stdout, runs

vars == <<variant, args, templateExists, template, pc, content,
          output, exitCode, stdout, runs>>

(***************************************************************************)
(* Bounds of the model.                                                    *)
(***************************************************************************)
\* Invocations of the tool in one behaviour: the first one, then re-runs on
\* the file the previous one wrote.
MaxRuns == 2
\* Lines between the RUN line and the fi line of a conditional block.
BlockBody == 1

(***************************************************************************)
(* Tokens.                                                                 *)
(***************************************************************************)
HASH == "#"
SP == " "
FROM_UBUNTU == "FROM ubuntu:22.04"
FROM_ALPINE == "FROM alpine:latest"
RUN_APT == "RUN apt-get update"
RUN_APK == "RUN apk update"
CMD_BASH == "CMD [\"/bin/bash\"]"
CMD_ASH == "CMD [\"/bin/ash\"]"
ALPINE_NOTE == "For Alpine, use \"/bin/ash\" instead of \"/bin/bash\""
FI == "    fi"
BODY == "    install; \\"
PINNED == "# pinned"

\* The components in the order main configures them.
Langs == <<"GOLANG", "RUST", "PYTHON", "NODEJS", "JAVA">>
LangSet == {Langs[i] : i \in DOMAIN Langs}
Versioned == {"GOLANG", "NODEJS", "JAVA"}

InstallKey(lang) == "ARG INSTALL_" \o lang \o "="

VersionArg(lang) ==
    CASE lang = "GOLANG" -> "GO_VERSION"
      [] lang = "NODEJS" -> "NODE_MAJOR"
      [] lang = "JAVA" -> "JAVA_VERSION"
      [] OTHER -> ""

VersionKey(lang) == "ARG " \o VersionArg(lang) \o "="

\* The version each script looks for and offers as the option's default.
DefaultVersion(lang) ==
    CASE lang = "GOLANG" -> <<"1.22.2">>
      [] lang = "NODEJS" -> <<"20">>
      [] lang = "JAVA" -> <<"17">>
      [] OTHER -> <<>>

RunIf(lang) == "RUN if [ \"$INSTALL_" \o lang \o "\" = \"true\" ]; then \\"

(***************************************************************************)
(* Text helpers.                                                           *)
(***************************************************************************)
StartsWith(line, prefix) ==
    /\ Len(line) >= Len(prefix)
    /\ SubSeq(line, 1, Len(prefix)) = prefix

Drop(line, n) == SubSeq(line, n + 1, Len(line))

Contains(line, pat) ==
    \E i \in 1..Len(line) : StartsWith(Drop(line, i - 1), pat)

\* str.replace(old, new) within one line: every non-overlapping occurrence,
\* found from the left.
RECURSIVE Replace(_, _, _)
Replace(line, old, new) ==
    IF Len(line) < Len(old) THEN line
    ELSE IF StartsWith(line, old)
         THEN new \o Replace(Drop(line, Len(old)), old, new)
         ELSE <<Head(line)>> \o Replace(Tail(line), old, new)

\* content.replace(old, new) for a pattern without a line break.
ReplaceAll(text, old, new) ==
    [i \in DOMAIN text |-> Replace(text[i], old, new)]

\* Where a lazy ".*?" under DOTALL stops: the index of the first line from
\* i on that is the given line, 0 if there is none.
FirstFrom(text, i, line) ==
    IF \E j \in i..Len(text) : text[j] = line
    THEN CHOOSE j \in i..Len(text) :
            /\ text[j] = line
            /\ \A k \in i..(j - 1) : text[k] # line
    ELSE 0

(***************************************************************************)
(* create-dockerfile copy.py: configure_base_os and configure_language.    *)
(***************************************************************************)
\* re.sub(r'^FROM ubuntu.*?^$', <prefix every line of the match with '# '>)
\* with MULTILINE | DOTALL, scanning from line i.  A match runs from a line
\* that starts with "FROM ubuntu" to the first empty line after it; the
\* match ends with the line break before that empty line, so its split has
\* an empty last piece and the empty line itself becomes "# ".
RECURSIVE CommentUbuntuSection(_, _)
CommentUbuntuSection(text, i) ==
    IF i > Len(text) THEN text
    ELSE IF StartsWith(text[i], <<FROM_UBUNTU>>)
         THEN LET j == FirstFrom(text, i + 1, <<>>) IN
              IF j = 0 THEN text
              ELSE CommentUbuntuSection(
                      [k \in DOMAIN text |->
                          IF k \in i..j THEN <<HASH, SP>> \o text[k]
                                        ELSE text[k]],
                      j + 1)
         ELSE CommentUbuntuSection(text, i + 1)

\* re.sub(r'^# (<tok>.*?)$', r'\1') : the line loses its leading "# ".
UncommentLine(text, tok) ==
    [i \in DOMAIN text |->
        IF StartsWith(text[i], <<HASH, SP, tok>>) THEN Drop(text[i], 2)
                                                  ELSE text[i]]

configure_base_os(text, base_os) ==
    IF base_os = "alpine"
    THEN LET commented == CommentUbuntuSection(text, 1)
             alpine == UncommentLine(commented, FROM_ALPINE)
             apk == UncommentLine(alpine, RUN_APK)
         IN  ReplaceAll(apk, <<CMD_BASH>>, <<CMD_ASH>>)
    ELSE text

\* re.sub(rf'ARG {version_arg}=.*', f'ARG {version_arg}={version_value}'):
\* from the first occurrence of the key to the end of the line.
SetVersionLine(line, key, value) ==
    IF \E p \in 1..Len(line) : line[p] = key
    THEN LET p == CHOOSE q \in 1..Len(line) :
                     /\ line[q] = key
                     /\ \A r \in 1..(q - 1) : line[r] # key
         IN  SubSeq(line, 1, p - 1) \o <<key>> \o value
    ELSE line

\* re.sub(r'^# (RUN if [ "$INSTALL_<lang>" = "true" ]; then \\.*?^#     fi)$',
\*        lambda m: m.group(1)) with MULTILINE | DOTALL, scanning from line i:
\* group 1 starts behind the "# " of the RUN line, so that is all a match
\* loses.
RECURSIVE UncommentBlock(_, _, _)
UncommentBlock(text, lang, i) ==
    IF i > Len(text) THEN text
    ELSE IF StartsWith(text[i], <<HASH, SP, RunIf(lang)>>)
         THEN LET j == FirstFrom(text, i + 1, <<HASH, SP, FI>>) IN
              IF j = 0 THEN text
              ELSE UncommentBlock([text EXCEPT ![i] = Drop(text[i], 2)],
                                  lang, j + 1)
         ELSE UncommentBlock(text, lang, i + 1)

\* configure_language with the flag forced to the template's literal: the
\* requested boolean is ignored.
configure_language_forced(text, lang, install, version_arg, version_value) ==
    LET flagged == ReplaceAll(text, <<InstallKey(lang), "true">>,
                                    <<InstallKey(lang), "true">>)
        versioned ==
            IF version_arg # "" /\ version_value # <<>>
            THEN [i \in DOMAIN flagged |->
                    SetVersionLine(flagged[i], "ARG " \o version_arg \o "=",
                                   version_value)]
            ELSE flagged
    IN  IF install THEN UncommentBlock(versioned, lang, 1) ELSE versioned

\* version_arg is "" and version_value is <<>> where the script passes None
\* or an empty string.
configure_language(text, lang, install, version_arg, version_value) ==
    LET install_value == IF install THEN "true" ELSE "false"
        flagged == ReplaceAll(text, <<InstallKey(lang), "true">>,
                                    <<InstallKey(lang), install_value>>)
        versioned ==
            IF version_arg # "" /\ version_value # <<>>
            THEN [i \in DOMAIN flagged |->
                    SetVersionLine(flagged[i], "ARG " \o version_arg \o "=",
                                   version_value)]
            ELSE flagged
    IN  IF install THEN UncommentBlock(versioned, lang, 1) ELSE versioned

(***************************************************************************)
(* create-dockerfile.py: the steps of generate_dockerfile.                 *)
(***************************************************************************)
generate_base_os(text, base) ==
    IF base = "ubuntu"
    THEN ReplaceAll(ReplaceAll(text, <<HASH, FROM_UBUNTU>>, <<FROM_UBUNTU>>),
                    <<HASH, SP, RUN_APT>>, <<RUN_APT>>)
    ELSE LET t1 == ReplaceAll(text, <<FROM_UBUNTU>>, <<HASH, SP, FROM_UBUNTU>>)
             t2 == ReplaceAll(t1, <<HASH, SP, FROM_ALPINE>>, <<FROM_ALPINE>>)
             t3 == ReplaceAll(t2, <<HASH, SP, RUN_APK>>, <<RUN_APK>>)
             t4 == ReplaceAll(t3, <<CMD_BASH>>, <<HASH, SP, CMD_BASH>>)
         IN  ReplaceAll(t4, <<HASH, SP, ALPINE_NOTE>>, <<CMD_ASH>>)

\* One "Configure <language>" paragraph; version is the option's value.
generate_language(text, lang, enabled, version) ==
    IF enabled
    THEN LET flagged == ReplaceAll(text, <<InstallKey(lang), "true">>,
                                         <<InstallKey(lang), "true">>)
         IN  IF lang \in Versioned
             THEN ReplaceAll(flagged,
                             <<VersionKey(lang)>> \o DefaultVersion(lang),
                             <<VersionKey(lang)>> \o version)
             ELSE flagged
    ELSE ReplaceAll(text, <<InstallKey(lang), "true">>,
                          <<InstallKey(lang), "false">>)

(***************************************************************************)
(* The parsed options (parse_arguments) and the summaries.                 *)
(***************************************************************************)
Flag(a, lang) ==
    CASE lang = "GOLANG" -> a.golang
      [] lang = "RUST" -> a.rust
      [] lang = "PYTHON" -> a.python
      [] lang = "NODEJS" -> a.nodejs
      [] lang = "JAVA" -> a.java

Version(a, lang) ==
    CASE lang = "GOLANG" -> a.go_version
      [] lang = "NODEJS" -> a.node_version
      [] lang = "JAVA" -> a.java_version
      [] OTHER -> <<>>

\* The name create-dockerfile.py prints for an included language.
DisplayName(lang) ==
    CASE lang = "GOLANG" -> "Go"
      [] lang = "RUST" -> "Rust"
      [] lang = "PYTHON" -> "Python"
      [] lang = "NODEJS" -> "Node.js"
      [] lang = "JAVA" -> "Java"

\* The label the copy prints in its configuration summary.
SummaryLabel(lang) ==
    CASE lang = "GOLANG" -> "  Golang:"
      [] lang = "RUST" -> "  Rust:"
      [] lang = "PYTHON" -> "  Python:"
      [] lang = "NODEJS" -> "  Node.js:"
      [] lang = "JAVA" -> "  Java:"

\* languages = [] ... languages.append(...) ; the joined list as one line.
languages(a) ==
    LET item(lang) == IF Flag(a, lang)
                      THEN <<DisplayName(lang)>> \o Version(a, lang)
                      ELSE <<>>
    IN  item(Langs[1]) \o item(Langs[2]) \o item(Langs[3])
          \o item(Langs[4]) \o item(Langs[5])

GenerateReport(a) ==
    << <<"Dockerfile successfully generated at:">>,
       <<"Base OS:", a.base>>,
       IF languages(a) # <<>>
       THEN <<"Included languages:">> \o languages(a)
       ELSE <<"No programming languages were enabled">>,
       <<"Next Steps:">> >>

ConfigurationSummary(a) ==
    << <<"Dockerfile generated at">>, <<"  Base OS:", a.base>> >>
      \o [i \in DOMAIN Langs |->
            <<SummaryLabel(Langs[i]),
              IF Flag(a, Langs[i]) THEN "true" ELSE "false">>
              \o Version(a, Langs[i])]

(***************************************************************************)
(* Templates and option sets of the model.                                 *)
(***************************************************************************)
UbuntuLines(form) ==
    CASE form = "active" -> << <<FROM_UBUNTU>>, <<RUN_APT>> >>
      [] form = "hash" -> << <<HASH, FROM_UBUNTU>>, <<HASH, SP, RUN_APT>> >>
      [] form = "hashsp" ->
            << <<HASH, SP, FROM_UBUNTU>>, <<HASH, SP, RUN_APT>> >>

AlpineLines(form) ==
    CASE form = "active" -> << <<FROM_ALPINE>>, <<RUN_APK>> >>
      [] form = "hashsp" ->
            << <<HASH, SP, FROM_ALPINE>>, <<HASH, SP, RUN_APK>> >>

FlagLines(lang, flag) ==
    IF flag = "absent" THEN <<>> ELSE << <<InstallKey(lang), flag>> >>

VersionLines(lang, ver) ==
    IF lang \notin Versioned THEN <<>>
    ELSE CASE ver = "default" ->
                << <<VersionKey(lang)>> \o DefaultVersion(lang) >>
           [] ver = "other" -> << <<VersionKey(lang), "1.0">> >>
           [] ver = "trailing" ->
                << <<VersionKey(lang)>> \o DefaultVersion(lang)
                     \o <<SP, PINNED>> >>

BlockLines(lang, block) ==
    CASE block = "absent" -> <<>>
      [] block = "active" ->
            << <<RunIf(lang)>> >> \o [i \in 1..BlockBody |-> <<BODY>>]
              \o << <<FI>> >>
      [] block = "commented" ->
            << <<HASH, SP, RunIf(lang)>> >>
              \o [i \in 1..BlockBody |-> <<HASH, SP, BODY>>]
              \o << <<HASH, SP, FI>> >>

ComponentLines(lang, shape) ==
    FlagLines(lang, shape.flag) \o VersionLines(lang, shape.ver)
      \o BlockLines(lang, shape.block)

StandardShape == [flag |-> "true", ver |-> "default", block |-> "commented"]
Shapes == [flag : {"true", "false", "absent"},
           ver : {"default", "other", "trailing"},
           block : {"commented", "active", "absent"}]

StandardOs == [ubuntu |-> "active", blank |-> TRUE, alpine |-> "hashsp"]
OsForms == [ubuntu : {"active", "hash", "hashsp"}, blank : BOOLEAN,
            alpine : {"active", "hashsp"}]

\* A template: the two profiles, the five components (the component focus
\* in the given shape, the others in the standard one), the CMD lines, and
\* the empty piece behind the last line break.
Template(os, focus, shape) ==
    LET comp(lang) == ComponentLines(lang, IF lang = focus THEN shape
                                                           ELSE StandardShape)
    IN  UbuntuLines(os.ubuntu)
          \o (IF os.blank THEN << <<>> >> ELSE <<>>)
          \o AlpineLines(os.alpine)
          \o comp(Langs[1]) \o comp(Langs[2]) \o comp(Langs[3])
          \o comp(Langs[4]) \o comp(Langs[5])
          \o << <<CMD_BASH>>, <<HASH, SP, ALPINE_NOTE>>, <<>> >>

TemplatesFor(focus) ==
    {Template(StandardOs, focus, shape) : shape \in Shapes}
      \cup (IF focus = Langs[1]
            THEN {Template(os, focus, StandardShape) : os \in OsForms}
            ELSE {})

\* A version string that holds another component's flag assignment.
OtherLang(lang) ==
    CASE lang = "GOLANG" -> "RUST"
      [] lang = "NODEJS" -> "JAVA"
      [] OTHER -> "GOLANG"

VersionChoices(lang) ==
    IF lang \in Versioned
    THEN {DefaultVersion(lang), <<"2.0">>,
          <<"2.0", SP, InstallKey(OtherLang(lang)), "true">>}
    ELSE {<<>>}

\* The options of one invocation: the focus component on or off, the other
\* four on or off together, the focus component's version.
Options(base, on, rest, all, few, help, focus, ver) ==
    [base |-> base,
     golang |-> IF focus = "GOLANG" THEN on ELSE rest,
     rust |-> IF focus = "RUST" THEN on ELSE rest,
     python |-> IF focus = "PYTHON" THEN on ELSE rest,
     nodejs |-> IF focus = "NODEJS" THEN on ELSE rest,
     java |-> IF focus = "JAVA" THEN on ELSE rest,
     all |-> all,
     few_argv |-> few,
     help |-> help,
     go_version |-> IF focus = "GOLANG" THEN ver
                                        ELSE DefaultVersion("GOLANG"),
     node_version |-> IF focus = "NODEJS" THEN ver
                                          ELSE DefaultVersion("NODEJS"),
     java_version |-> IF focus = "JAVA" THEN ver
                                        ELSE DefaultVersion("JAVA")]

AllOptions(focus) ==
    {Options(base, on, rest, all, few, help, focus, ver) :
        base \in {"ubuntu", "alpine"}, on \in BOOLEAN, rest \in BOOLEAN,
        all \in BOOLEAN, few \in BOOLEAN, help \in BOOLEAN,
        ver \in VersionChoices(focus)}

\* --all and the short command line (len(sys.argv) <= 2) exist in
\* create-dockerfile.py only.  Each of them, and -h/--help, is drawn only
\* with no language flag and without the other two.
OptionsFor(v, focus) ==
    {a \in AllOptions(focus) :
        /\ (a.all \/ a.few_argv) => v = "orig"
        /\ (a.all \/ a.few_argv \/ a.help) =>
              /\ \A l \in LangSet : ~Flag(a, l)
              /\ ~(a.all /\ a.few_argv)
              /\ ~(a.help /\ (a.all \/ a.few_argv))}

NoOutput == [written |-> FALSE, text |-> <<>>]

(***************************************************************************)
(* The state machine.                                                      *)
(***************************************************************************)
Init ==
    /\ variant \in {"orig", "copy"}
    /\ templateExists \in BOOLEAN
    /\ \E focus \in LangSet :
          /\ args \in OptionsFor(variant, focus)
          /\ template \in IF templateExists THEN TemplatesFor(focus)
                                            ELSE {<<>>}
    /\ pc = "parse"
    /\ content = <<>>
    /\ output = NoOutput
    /\ exitCode = -1
    /\ stdout = <<>>
    /\ runs = <<>>

Exit(code, printed) ==
    /\ pc' = "exit"
    /\ exitCode' = code
    /\ stdout' = stdout \o printed

\* Either script, main: args = parse_arguments().  argparse answers -h or
\* --help itself: it prints the usage and ends the process with status 0.
parse_arguments ==
    /\ pc = "parse"
    /\ IF args.help
       THEN Exit(0, << <<"usage:">> >>)
       ELSE /\ pc' = "main"
            /\ UNCHANGED <<exitCode, stdout>>
    /\ UNCHANGED <<variant, args, templateExists, template, content, output,
                   runs>>

\* create-dockerfile.py, main: the help shortcut, else generate_dockerfile.
Main ==
    /\ pc = "main"
    /\ variant = "orig"
    /\ IF ~(\E l \in LangSet : Flag(args, l)) /\ ~args.all /\ args.few_argv
       THEN Exit(0, << <<"Dockerfile Generator">> >>)
       ELSE /\ pc' = "read"
            /\ UNCHANGED <<exitCode, stdout>>
    /\ UNCHANGED <<variant, args, templateExists, template, content, output,
                   runs>>

\* generate_dockerfile: the template check and the read.
GenerateRead ==
    /\ pc = "read"
    /\ variant = "orig"
    /\ IF ~templateExists
       THEN /\ Exit(1, << <<"Error: Template file not found at">> >>)
            /\ UNCHANGED content
       ELSE /\ content' = template
            /\ pc' = "base_os"
            /\ UNCHANGED <<exitCode, stdout>>
    /\ UNCHANGED <<variant, args, templateExists, template, output, runs>>

\* generate_dockerfile: "Process base OS selection".
GenerateBaseOs ==
    /\ pc = "base_os"
    /\ variant = "orig"
    /\ content' = generate_base_os(content, args.base)
    /\ pc' = "all"
    /\ UNCHANGED <<variant, args, templateExists, template, output, exitCode,
                   stdout, runs>>

\* generate_dockerfile: "If --all is specified, enable all languages".
GenerateAll ==
    /\ pc = "all"
    /\ variant = "orig"
    /\ args' = IF args.all
               THEN [args EXCEPT !.golang = TRUE, !.rust = TRUE,
                                 !.python = TRUE, !.nodejs = TRUE,
                                 !.java = TRUE]
               ELSE args
    /\ pc' = "lang_" \o Langs[1]
    /\ UNCHANGED <<variant, templateExists, template, content, output,
                   exitCode, stdout, runs>>

NextLang(i) == IF i < Len(Langs) THEN "lang_" \o Langs[i + 1] ELSE "write"

\* generate_dockerfile: the "Configure <language>" paragraphs, in order.
GenerateLanguage ==
    /\ variant = "orig"
    /\ \E i \in DOMAIN Langs :
          /\ pc = "lang_" \o Langs[i]
          /\ content' = generate_language(content, Langs[i],
                                          Flag(args, Langs[i]),
                                          Version(args, Langs[i]))
          /\ pc' = NextLang(i)
    /\ UNCHANGED <<variant, args, templateExists, template, output, exitCode,
                   stdout, runs>>

\* generate_dockerfile: the write.  open() or write() may fail; the
\* exception is not caught, so the interpreter ends with status 1.
GenerateWrite ==
    /\ pc = "write"
    /\ variant = "orig"
    /\ \/ /\ output' = [written |-> TRUE, text |-> content]
          /\ pc' = "report"
          /\ UNCHANGED <<exitCode, stdout>>
       \/ /\ Exit(1, << <<"Traceback">> >>)
          /\ UNCHANGED output
    /\ UNCHANGED <<variant, args, templateExists, template, content, runs>>

\* generate_dockerfile: the messages after the write; main returns.
GenerateReportStep ==
    /\ pc = "report"
    /\ variant = "orig"
    /\ Exit(0, GenerateReport(args))
    /\ UNCHANGED <<variant, args, templateExists, template, content, output,
                   runs>>

\* read_template that swallows the missing file and hands back an empty
\* text instead of ending the process.
read_template_lenient ==
    /\ pc = "main"
    /\ variant = "copy"
    /\ content' = IF templateExists THEN template ELSE <<>>
    /\ pc' = "base_os"
    /\ UNCHANGED <<variant, args, templateExists, template, output, exitCode,
                   stdout, runs>>

\* copy, main: content = read_template(args.template).
read_template ==
    /\ pc = "main"
    /\ variant = "copy"
    /\ IF ~templateExists
       THEN /\ Exit(1, << <<"Error: Template file not found at">> >>)
            /\ UNCHANGED content
       ELSE /\ content' = template
            /\ pc' = "base_os"
            /\ UNCHANGED <<exitCode, stdout>>
    /\ UNCHANGED <<variant, args, templateExists, template, output, runs>>

\* copy, main: content = configure_base_os(content, args.os).
ConfigureBaseOs ==
    /\ pc = "base_os"
    /\ variant = "copy"
    /\ content' = configure_base_os(content, args.base)
    /\ pc' = "lang_" \o Langs[1]
    /\ UNCHANGED <<variant, args, templateExists, template, output, exitCode,
                   stdout, runs>>

\* copy, main: the five configure_language calls, in order.
ConfigureLanguage ==
    /\ variant = "copy"
    /\ \E i \in DOMAIN Langs :
          /\ pc = "lang_" \o Langs[i]
          /\ content' = configure_language(content, Langs[i],
                                           Flag(args, Langs[i]),
                                           VersionArg(Langs[i]),
                                           Version(args, Langs[i]))
          /\ pc' = NextLang(i)
    /\ UNCHANGED <<variant, args, templateExists, template, output, exitCode,
                   stdout, runs>>

\* copy, main: write_dockerfile(content, args.output).
write_dockerfile ==
    /\ pc = "write"
    /\ variant = "copy"
    /\ \/ /\ output' = [written |-> TRUE, text |-> content]
          /\ pc' = "report"
          /\ UNCHANGED <<exitCode, stdout>>
       \/ /\ Exit(1, << <<"Error writing to">> >>)
          /\ UNCHANGED output
    /\ UNCHANGED <<variant, args, templateExists, template, content, runs>>

\* copy, main: "Display configuration summary"; main returns.
Summary ==
    /\ pc = "report"
    /\ variant = "copy"
    /\ Exit(0, ConfigurationSummary(args))
    /\ UNCHANGED <<variant, args, templateExists, template, content, output,
                   runs>>

\* The caller runs the tool again, on the file the last run wrote, with the
\* same options or with the other profile's.
Rerun ==
    /\ pc = "exit"
    /\ exitCode = 0
    /\ output.written
    /\ Len(runs) + 1 < MaxRuns
    /\ \E base \in {"ubuntu", "alpine"} :
          args' = [args EXCEPT !.base = base]
    /\ runs' = Append(runs, [template |-> template, args |-> args])
    /\ template' = output.text
    /\ pc' = "parse"
    /\ content' = <<>>
    /\ output' = NoOutput
    /\ exitCode' = -1
    /\ stdout' = <<>>
    /\ UNCHANGED <<variant, templateExists>>

Next ==
    \/ parse_arguments
    \/ Main
    \/ GenerateRead
    \/ GenerateBaseOs
    \/ GenerateAll
    \/ GenerateLanguage
    \/ GenerateWrite
    \/ GenerateReportStep
    \/ read_template
    \/ ConfigureBaseOs
    \/ ConfigureLanguage
    \/ write_dockerfile
    \/ Summary
    \/ Rerun

Spec == Init /\ [][Next]_vars

(***************************************************************************)
(* Vocabulary of the properties.                                           *)
(***************************************************************************)
Range(seq) == {seq[i] : i \in DOMAIN seq}

FirstRun == Len(runs) = 0

\* The state right behind the base-OS step of either variant.
AfterBaseOs == pc = IF variant = "orig" THEN "all" ELSE "lang_" \o Langs[1]

Requested(lang) == Flag(args, lang) \/ args.all

IsCommented(line) == StartsWith(line, <<HASH>>)

EndsWith(line, suffix) ==
    /\ Len(line) >= Len(suffix)
    /\ SubSeq(line, Len(line) - Len(suffix) + 1, Len(line)) = suffix

ActiveLines(text, tok) ==
    {i \in DOMAIN text : StartsWith(text[i], <<tok>>)}

CommentedLines(text, tok) ==
    {i \in DOMAIN text : IsCommented(text[i]) /\ Contains(text[i], <<tok>>)}

\* The help shortcut of create-dockerfile.py's main has answered.
HelpShown == <<"Dockerfile Generator">> \in Range(stdout)

\* argparse has answered -h/--help.
UsageShown == <<"usage:">> \in Range(stdout)

ErrorReported == <<"Error: Template file not found at">> \in Range(stdout)

\* The summary presents the component as included.
ReportedIncluded(lang) ==
    IF variant = "orig"
    THEN \E line \in Range(stdout) :
            /\ Head(line) = "Included languages:"
            /\ DisplayName(lang) \in Range(line)
    ELSE \E line \in Range(stdout) :
            /\ Head(line) = SummaryLabel(lang)
            /\ line[2] = "true"

(***************************************************************************)
(* C1  Idempotence.                                                        *)
(***************************************************************************)
\* C1: a second run on the first run's output with the identical options
\* writes text identical to that output (its own template).
C1_Idempotent ==
    (Len(runs) = 1 /\ output.written /\ args = runs[1].args)
        => output.text = template

(***************************************************************************)
(* C2  Exclusivity.                                                        *)
(***************************************************************************)
\* C2: behind the base-OS step exactly one profile FROM line is active, the
\* chosen one, and the other profile's FROM line is commented.
C2_Exclusive ==
    (FirstRun /\ AfterBaseOs) =>
        LET chosen == IF args.base = "ubuntu" THEN FROM_UBUNTU ELSE FROM_ALPINE
            other == IF args.base = "ubuntu" THEN FROM_ALPINE ELSE FROM_UBUNTU
        IN  /\ Cardinality(ActiveLines(content, chosen)) = 1
            /\ ActiveLines(content, other) = {}
            /\ CommentedLines(content, other) # {}

(***************************************************************************)
(* C3  Order independence.                                                 *)
(***************************************************************************)
Perms ==
    {p \in [DOMAIN Langs -> DOMAIN Langs] :
        \A i, j \in DOMAIN Langs : i # j => p[i] # p[j]}

\* configure_language once per component, in the order p.
RECURSIVE ConfigureInOrder(_, _, _, _)
ConfigureInOrder(p, k, text, a) ==
    IF k > Len(Langs) THEN text
    ELSE ConfigureInOrder(p, k + 1,
            configure_language(text, Langs[p[k]], Flag(a, Langs[p[k]]),
                               VersionArg(Langs[p[k]]),
                               Version(a, Langs[p[k]])),
            a)

\* C3: the text main reaches with its own order of the five
\* configure_language calls is the text every permutation reaches.
C3_OrderIndependent ==
    (variant = "copy" /\ pc = "write") =>
        \A p \in Perms :
            ConfigureInOrder(p, 1, configure_base_os(template, args.base),
                             args) = content

(***************************************************************************)
(* C4  Disabling follows the requested boolean.                            *)
(***************************************************************************)
FlagTrueLines(lang) ==
    {i \in DOMAIN template : template[i] = <<InstallKey(lang), "true">>}

\* C4: in both variants, a template line 'ARG INSTALL_<C>=true' of a
\* component that is not requested reads 'ARG INSTALL_<C>=false' in the
\* written text (behind "# " where the base-OS step commented the line).
C4_DisableFlips ==
    output.written =>
        \A lang \in LangSet : \A i \in FlagTrueLines(lang) :
            ~Requested(lang) =>
                output.text[i] \in {<<InstallKey(lang), "false">>,
                                    <<HASH, SP, InstallKey(lang), "false">>}

\* A run of the copy wrote a flipped flag line.
C4_Witness ==
    /\ output.written
    /\ variant = "copy"
    /\ \E lang \in LangSet : \E i \in FlagTrueLines(lang) :
          /\ ~Requested(lang)
          /\ output.text[i] = <<InstallKey(lang), "false">>

(***************************************************************************)
(* C5  Enabling overrides the template default.                            *)
(***************************************************************************)
FlagFalseLines(lang) ==
    {i \in DOMAIN template : template[i] = <<InstallKey(lang), "false">>}

VersionLinesOf(text, lang) ==
    {i \in DOMAIN text : StartsWith(text[i], <<VersionKey(lang)>>)}

\* C5: a component whose template flag line is 'ARG INSTALL_<C>=false' and
\* that is requested with version v has flag line '...=true' and, where it
\* has a version line, the version assignment v in the written text.
C5_EnableOverrides ==
    (FirstRun /\ output.written) =>
        \A lang \in LangSet :
            (Requested(lang) /\ FlagFalseLines(lang) # {}) =>
                /\ \A i \in FlagFalseLines(lang) :
                      output.text[i] = <<InstallKey(lang), "true">>
                /\ \A i \in VersionLinesOf(template, lang) :
                      StartsWith(output.text[i],
                                 <<VersionKey(lang)>> \o Version(args, lang))

(***************************************************************************)
(* C6  Version substitution precision.                                     *)
(***************************************************************************)
\* What follows the value token of the assignment key in line: the text from
\* the first blank behind the key on.
RestAfterValue(line, key) ==
    LET p == CHOOSE q \in 1..Len(line) : line[q] = key
        blanks == {q \in (p + 1)..Len(line) : line[q] = SP}
    IN  IF blanks = {} THEN <<>>
        ELSE SubSeq(line, CHOOSE q \in blanks : \A r \in blanks : q <= r,
                    Len(line))

\* C6: a language step that rewrites the component's version changes, in
\* the line of the assignment, nothing before the key and nothing behind
\* the value, and leaves alone every line that holds neither that key nor
\* the component's own flag or block marker.
C6_VersionPrecise ==
    [][\A n \in DOMAIN Langs :
          (pc = "lang_" \o Langs[n] /\ pc' = NextLang(n)
             /\ Langs[n] \in Versioned) =>
            LET lang == Langs[n] IN
            \A i \in DOMAIN content :
                IF Contains(content[i], <<VersionKey(lang)>>)
                THEN /\ Len(content'[i]) >= Len(RestAfterValue(content[i],
                                                    VersionKey(lang)))
                     /\ EndsWith(content'[i],
                                 RestAfterValue(content[i], VersionKey(lang)))
                ELSE (~Contains(content[i], <<InstallKey(lang)>>)
                        /\ ~Contains(content[i], <<RunIf(lang)>>))
                        => content'[i] = content[i]]_vars

(***************************************************************************)
(* C7  Round-trip toggle.                                                  *)
(***************************************************************************)
UbuntuRegion(text) ==
    {i \in DOMAIN text : text[i] \in {<<FROM_UBUNTU>>, <<RUN_APT>>}}

\* C7: a template with the ubuntu region active, run with profile alpine
\* and then, on the result, with profile ubuntu: behind the second base-OS
\* step the region's lines are the original ones.
C7_RoundTrip ==
    (/\ Len(runs) = 1
     /\ runs[1].args.base = "alpine"
     /\ args.base = "ubuntu"
     /\ AfterBaseOs) =>
        \A i \in UbuntuRegion(runs[1].template) :
            content[i] = runs[1].template[i]

(***************************************************************************)
(* C8  A missing template is fatal.                                        *)
(***************************************************************************)
\* C8 as stated: every run with the template missing ends with the error
\* reported and a non-zero exit code, with no step run and nothing written;
\* exit code 0 only behind the write or the help shortcut.
C8_MissingTemplateFatal ==
    /\ (~templateExists /\ pc = "exit") =>
          /\ exitCode # 0
          /\ ErrorReported
    /\ ~templateExists =>
          /\ pc \in {"parse", "main", "read", "exit"}
          /\ content = <<>>
          /\ ~output.written
    /\ exitCode = 0 => (output.written \/ (variant = "orig" /\ HelpShown))

\* C8 amended: the same for every run that gets to the template read, that
\* is every run that neither argparse's --help nor create-dockerfile.py's
\* help shortcut ends first; exit code 0 only behind the write or behind
\* one of the two helps.
C8_MissingTemplateFatalPastHelp ==
    /\ (~templateExists /\ pc = "exit" /\ ~HelpShown /\ ~UsageShown) =>
          /\ exitCode = 1
          /\ ErrorReported
    /\ ~templateExists =>
          /\ pc \in {"parse", "main", "read", "exit"}
          /\ content = <<>>
          /\ ~output.written
    /\ exitCode = 0 =>
          \/ output.written
          \/ variant = "orig" /\ HelpShown
          \/ UsageShown

\* A run ended on the missing template.
C8_Witness ==
    /\ ~templateExists
    /\ pc = "exit"
    /\ exitCode = 1
    /\ ErrorReported

(***************************************************************************)
(* C9  An unmatched component is a visible no-op.                          *)
(***************************************************************************)
HasFlagLine(text, lang) ==
    \E i \in DOMAIN text : Contains(text[i], <<InstallKey(lang)>>)

\* C9: a requested component without an 'ARG INSTALL_<C>=' line in the
\* template is not presented as included by the summary of a finished run.
C9_UnmatchedVisible ==
    (FirstRun /\ pc = "exit" /\ exitCode = 0 /\ output.written) =>
        \A lang \in LangSet :
            (Requested(lang) /\ ~HasFlagLine(template, lang))
                => ~ReportedIncluded(lang)

(***************************************************************************)
(* C10  The conditional block follows the enable flag.                     *)
(***************************************************************************)
\* The lines of lang's conditional block in the template: the RUN line,
\* active or commented, through its fi line.
BlockOf(lang) ==
    LET starts == {i \in DOMAIN template :
                      \/ StartsWith(template[i], <<RunIf(lang)>>)
                      \/ StartsWith(template[i], <<HASH, SP, RunIf(lang)>>)}
    IN  UNION {i..(i + BlockBody + 1) : i \in starts}

\* C10: behind the copy's configure_language calls the block of a component
\* is active in every line if the component is installed and commented in
\* every line if it is not.
C10_BlockFollowsFlag ==
    (FirstRun /\ variant = "copy" /\ pc = "write") =>
        \A lang \in LangSet : \A i \in BlockOf(lang) :
            IsCommented(content[i]) <=> ~Flag(args, lang)

=============================================================================
